---- MODULE Spec2Model ----
(***************************************************************************)
(* Authentication and session lifecycle of pyanglianwater.                 *)
(*                                                                         *)
(* One authenticator object (LegacyAuth, MSOB2CAuth or the older API       *)
(* class) is shared by the coroutines of Tasks.  A coroutine runs          *)
(* atomically from one network await to the next, as asyncio schedules     *)
(* it; every action below is one such segment.  The remote server is the   *)
(* environment: every response is drawn from a small set.  Time is in      *)
(* seconds.                                                                *)
(*                                                                         *)
(* Callers log in (send_login_request, refresh_login) while no token is    *)
(* held, which is the precondition BaseAuth.send_login_request documents,  *)
(* and dispatch at any time.  Recursion of LegacyAuth.send_request is      *)
(* modelled as the language defines it, without a depth limit.             *)
(***************************************************************************)
EXTENDS Integers, FiniteSets, Sequences, TLC

VARIABLES
    variant,         \* which class the authenticator object is
    access_token,    \* BaseAuth.access_token / API.access_token (plain attribute)
    auth_data,       \* MSOB2CAuth.auth_data (access_token is a property over it)
    next_refresh,    \* refresh deadline, NoTime while None
    account_number,  \* account number parsed from the login response
    now,             \* datetime.now()
    cleared_by,      \* history: why no token is held ("none" while one is held)
    task,            \* per coroutine: position, locals and history of its call
    verifiers_sent,  \* history: code verifiers that token requests have carried
    just_logged_in,  \* history: a login succeeded at this instant, token not cleared since
    pkce,            \* MSOB2CAuth._state and ._csrf_token
    device,          \* device_id and LegacyAuth._new_device of the object
    client           \* progress of create_via_login* and get_usages on the object

vars == <<variant, access_token, auth_data, next_refresh, account_number,
          now, cleared_by, task, verifiers_sent, just_logged_in, pkce, device, client>>

----------------------------------------------------------------------------
(* Bounds of the model *)

MaxTime == 2700
MaxCount == 3

TickSteps == {900}
Tasks == {"t1", "t2"}
\* The coroutine whose call is observed; the other runs the same code beside it.
Observed == {"t1"}
Tokens == {"tok1", "tok2"}
Accounts == {"acc1"}

----------------------------------------------------------------------------
(* Values *)

None == "None"
NoTime == -1
NoData == [present |-> FALSE, access_token |-> None, refresh_token |-> None,
           expires_in |-> NoTime]

LEGACY_REFRESH_MINUTES == 15
API_REFRESH_MINUTES == 30
Minutes(m) == m * 60

Variants == {"LegacyAuth", "MSOB2CAuth", "API"}

API_ENDPOINTS == {"login", "register_device", "get_dashboard_details",
                  "get_bills_payments", "get_usage_details"}
LEGACY_API_ENDPOINTS == {"register_device", "get_dashboard_details",
                         "get_bills_payments"}
AW_APP_ENDPOINTS == {"get_dashboard_details", "get_usage_details"}

\* The endpoint names a caller passes in: one the catalogs hold, one they do not.
RequestedEndpoints == {"get_dashboard_details", "no_such_endpoint"}

\* Final statuses of a call's response (redirects are followed by the session).
Statuses == {200, 401, 403, 500, 503}
StatusOk(s) == s >= 200 /\ s < 300

\* Vendor status codes of a JSON body: success, one the table maps, one it does not.
Codes == {"0", "5", "99"}
API_RESPONSE_STATUS_CODE_MAPPING == [c \in {"5"} |-> "ServiceUnavailableError"]

Responses == [status : Statuses, json : BOOLEAN, code : Codes]

\* What a response's body is to the code that reads it: not JSON, or JSON with
\* this vendor status code.  A call's lastBody is the body its dispatch read.
Body(r) == IF r.json THEN r.code ELSE "not_json"

\* What each round trip of the PKCE login flow can come back with.
AuthorizePages == {"ok", "http_error", "no_settings", "no_csrf_or_trans_id"}
SelfAssertedResults == {"ok", "rejected", "not_json"}
ConfirmResults == {"ok", "not_302", "no_location", "no_code"}
TokenFailures == {"not_200", "bad_json"}
\* expires_in of a token payload, in seconds; NoTime when the payload has none.
ExpiresIn == {900}
RefreshTokens == {"rt1"}
TokenPayloads == [present : {TRUE}, access_token : Tokens \cup {None},
                  refresh_token : RefreshTokens \cup {None},
                  expires_in : ExpiresIn \cup {NoTime}]

Inc(n) == IF n < MaxCount THEN n + 1 ELSE MaxCount
Capped(n) == IF n < MaxCount THEN n ELSE MaxCount

----------------------------------------------------------------------------
(* A coroutine's record *)

NoHeaders == [tok |-> None, partner |-> None]

\* What the requests of a PKCE login carried: the challenge of the authorize
\* request, CSRF token and state nonce of the credential POST and of the
\* confirmation GET, the verifier of the token POST.
NoneSent == [challenge |-> None, saCsrf |-> None, saState |-> None,
             cfCsrf |-> None, cfState |-> None, verifier |-> None]

IdleTask == [pc |-> "idle", ep |-> "none", cont |-> "none", hdr |-> NoHeaders,
             attempts |-> 0, logins |-> 0, since401 |-> "none",
             issuedTok |-> None, issuedFresh |-> TRUE, startNull |-> "held",
             startDue |-> FALSE,
             lastStatus |-> 0, lastBody |-> "none", seq |-> 0, flow |-> "none",
             trail |-> <<>>, sent |-> NoneSent,
             outcome |-> "none"]

\* The refresh deadline has passed.
StartDue == next_refresh # NoTime /\ next_refresh <= now

\* The call starts: history of the previous call is dropped.
Start(start) == [IdleTask EXCEPT !.startNull = start, !.startDue = StartDue]

\* The call ends: its locals are gone, its history stays until the next call.
Raise(k, e) ==
    [k EXCEPT !.pc = "idle", !.cont = "none", !.hdr = NoHeaders, !.sent = NoneSent,
              !.outcome = e]
Return(k) ==
    [k EXCEPT !.pc = "idle", !.cont = "none", !.hdr = NoHeaders, !.sent = NoneSent,
              !.outcome = "ok"]

\* History and the contents of requests already sent are kept for the
\* observed coroutine only.
Obs(t, k) ==
    IF t \in Observed THEN k
    ELSE [IdleTask EXCEPT !.pc = k.pc, !.cont = k.cont,
                          !.ep = IF k.pc = "idle" THEN "none" ELSE k.ep]

\* A login request goes out; cont is where the coroutine resumes after it.
IssueLogin(k, c) ==
    [k EXCEPT !.pc = "login_http", !.cont = c, !.logins = Inc(@),
              !.since401 = IF @ = "rejected" THEN "refreshed" ELSE @]

\* The request for the named endpoint goes out with the headers built earlier;
\* tok and nr are the authenticator's token and deadline at this moment.  attempts
\* counts the requests of this call up to MaxCount, seq is their number modulo 2.
IssueCall(k, tok, nr) ==
    [k EXCEPT !.pc = "call_http", !.cont = "none", !.attempts = Inc(@),
              !.seq = 1 - @, !.issuedTok = tok,
              !.issuedFresh = (nr # NoTime /\ nr > now)]

SetTask(t, k) == task' = [task EXCEPT ![t] = Obs(t, k)]

----------------------------------------------------------------------------
(* BaseAuth *)

\* send_refresh_request without its deadline test: it logs in whenever a token
\* is held.
send_refresh_request_Always(tok, nr) ==
    IF tok = None THEN "ValueError"
    ELSE IF nr = NoTime THEN "TypeError"
    ELSE "login"

\* The three ways send_refresh_request ends: it raises, returns, or logs in.
send_refresh_request(tok, nr) ==
    IF tok = None THEN "ValueError"
    ELSE IF nr = NoTime THEN "TypeError"
    ELSE IF nr > now THEN "return"
    ELSE "login"

----------------------------------------------------------------------------
(* LegacyAuth *)

LegacyHeaders(tok, acct) ==
    [tok |-> tok, partner |-> IF tok = None THEN "undefined" ELSE acct]

\* send_request from the token check after the refresh to the request going out.
LegacyAfterRefresh(k, tok, nr) ==
    IF tok = None THEN Raise(k, "ExpiredAccessTokenError")
    ELSE IssueCall(k, tok, nr)

\* LegacySendRequest without the refresh before the token check.
LegacySendRequest_NoRefresh(k, ep, tok, acct, nr) ==
    IF ep \notin LEGACY_API_ENDPOINTS THEN Raise([k EXCEPT !.ep = ep], "ValueError")
    ELSE LegacyAfterRefresh([k EXCEPT !.ep = ep, !.hdr = LegacyHeaders(tok, acct)],
                            tok, nr)

\* send_request from its first line to its first network await.
LegacySendRequest(k, ep, tok, acct, nr) ==
    IF ep \notin LEGACY_API_ENDPOINTS THEN Raise([k EXCEPT !.ep = ep], "ValueError")
    ELSE LET h == [k EXCEPT !.ep = ep, !.hdr = LegacyHeaders(tok, acct)]
             r == send_refresh_request(tok, nr)
         IN  IF r = "login" THEN IssueLogin(h, "pre")
             ELSE IF r = "return" THEN LegacyAfterRefresh(h, tok, nr)
             ELSE Raise(h, r)

\* The 401 branch: a refresh, then send_request calls itself.
LegacyOn401(k, tok, acct, nr) ==
    LET r == send_refresh_request(tok, nr)
    IN  IF r = "login" THEN IssueLogin(k, "retry")
        ELSE IF r = "return" THEN LegacySendRequest(k, k.ep, tok, acct, nr)
        ELSE Raise(k, r)

\* The checks of a response that is neither 401 nor 503.
LegacyClassify(k, r) ==
    IF ~r.json THEN Raise(k, "UnknownEndpointError")
    ELSE IF r.code = "0" THEN Return(k)
    ELSE IF r.code \in DOMAIN API_RESPONSE_STATUS_CODE_MAPPING
         THEN Raise(k, API_RESPONSE_STATUS_CODE_MAPPING[r.code])
    ELSE Raise(k, "UnknownEndpointError")

\* parse_login_response's deadline: set on the first login, pushed on later ones.
LegacyNextRefresh(nr) ==
    IF nr = NoTime THEN now + Minutes(LEGACY_REFRESH_MINUTES)
    ELSE nr + Minutes(LEGACY_REFRESH_MINUTES)

\* Where the coroutine goes on once the login it awaited has been parsed.
LegacyResume(k, tok, acct, nr) ==
    IF k.cont = "caller" THEN Return(k)
    ELSE IF k.cont = "pre" THEN LegacyAfterRefresh(k, tok, nr)
    ELSE LegacySendRequest(k, k.ep, tok, acct, nr)

StartNull ==
    IF variant = "MSOB2CAuth"
    THEN (IF auth_data.access_token = None THEN cleared_by ELSE "held")
    ELSE (IF access_token = None THEN cleared_by ELSE "held")

\* A caller awaits send_request(endpoint, body).
LegacyDispatch(t, ep) ==
    /\ variant = "LegacyAuth"
    /\ UNCHANGED client
    /\ UNCHANGED device
    /\ UNCHANGED pkce
    /\ UNCHANGED just_logged_in
    /\ UNCHANGED verifiers_sent
    /\ task[t].pc = "idle"
    /\ SetTask(t, LegacySendRequest(Start(StartNull), ep, access_token, account_number, next_refresh))
    /\ UNCHANGED <<variant, access_token, auth_data, next_refresh, account_number,
                   now, cleared_by>>

\* A caller awaits send_login_request().
LegacyLogin(t) ==
    /\ variant = "LegacyAuth"
    /\ UNCHANGED client
    /\ UNCHANGED device
    /\ UNCHANGED pkce
    /\ UNCHANGED just_logged_in
    /\ UNCHANGED verifiers_sent
    /\ task[t].pc = "idle"
    /\ access_token = None
    /\ next_refresh <= MaxTime
    /\ SetTask(t, IssueLogin(Start(StartNull), "caller"))
    /\ UNCHANGED <<variant, access_token, auth_data, next_refresh, account_number,
                   now, cleared_by>>

\* The login response arrives.  parse_login_response subscripts whatever the
\* session's request() returned: it finds the fields (which may be null), or
\* raises on an object that has none.
LegacyRecvLogin(t) ==
    /\ variant = "LegacyAuth"
    /\ UNCHANGED client
    /\ UNCHANGED device
    /\ UNCHANGED pkce
    /\ UNCHANGED verifiers_sent
    /\ task[t].pc = "login_http"
    /\ \E parsed \in BOOLEAN, tok \in Tokens \cup {None}, acct \in Accounts :
          IF parsed
          THEN /\ access_token' = tok
               /\ account_number' = acct
               /\ next_refresh' = LegacyNextRefresh(next_refresh)
               /\ cleared_by' = IF tok = None THEN "login_null" ELSE "none"
               /\ just_logged_in' = (tok # None)
               /\ SetTask(t, LegacyResume(task[t], tok, acct, LegacyNextRefresh(next_refresh)))
          ELSE /\ SetTask(t, Raise(task[t], "TypeError"))
               /\ UNCHANGED <<access_token, account_number, next_refresh, cleared_by,
                              just_logged_in>>
    /\ UNCHANGED <<variant, auth_data, now>>

\* The response to the named call arrives.
LegacyRecvCall(t) ==
    /\ variant = "LegacyAuth"
    /\ UNCHANGED client
    /\ UNCHANGED device
    /\ UNCHANGED pkce
    /\ UNCHANGED verifiers_sent
    /\ task[t].pc = "call_http"
    /\ \E r \in Responses :
          LET k == [task[t] EXCEPT !.lastStatus = r.status]
          IN  IF r.status = 401
              THEN /\ SetTask(t, LegacyOn401([k EXCEPT !.since401 = "rejected"], access_token, account_number, next_refresh))
                   /\ UNCHANGED <<access_token, cleared_by, just_logged_in>>
              ELSE IF r.status = 503
              THEN /\ access_token' = None
                   /\ cleared_by' = "503"
                   /\ just_logged_in' = FALSE
                   /\ SetTask(t, Raise(k, "ServiceUnavailableError"))
              ELSE /\ SetTask(t, LegacyClassify([k EXCEPT !.lastBody = Body(r)], r))
                   /\ UNCHANGED <<access_token, cleared_by, just_logged_in>>
    /\ UNCHANGED <<variant, auth_data, next_refresh, account_number, now>>

----------------------------------------------------------------------------
(* API, the older handler of api.py *)

APIHeaders(tok) ==
    [tok |-> tok, partner |-> IF tok = None THEN "undefined" ELSE "ts"]

\* APIAfterRefresh without its token check: the request goes out regardless.
APIAfterRefresh_NoCheck(k, tok, nr) == IssueCall(k, tok, nr)

\* send_request from the token check after the refresh to the request going out.
APIAfterRefresh(k, tok, nr) ==
    IF tok = None THEN Raise(k, "ExpiredAccessTokenError")
    ELSE IssueCall(k, tok, nr)

\* APISendRequest with the endpoint looked up only after the refresh.
APISendRequest_LateLookup(k, ep, tok, nr) ==
    LET h == [k EXCEPT !.ep = ep, !.hdr = APIHeaders(tok)]
    IN  IF nr = NoTime THEN Raise(h, "TypeError")
        ELSE IF nr <= now THEN IssueLogin(h, "pre")
        ELSE IF ep \notin API_ENDPOINTS THEN Raise(h, "ValueError")
        ELSE APIAfterRefresh(h, tok, nr)

\* send_request for an endpoint other than login, up to its first network await.
\* The refresh is refresh_login, whose send_request("login") awaits the network.
APISendRequest(k, ep, tok, nr) ==
    IF ep \notin API_ENDPOINTS THEN Raise([k EXCEPT !.ep = ep], "ValueError")
    ELSE LET h == [k EXCEPT !.ep = ep, !.hdr = APIHeaders(tok)]
         IN  IF nr = NoTime THEN Raise(h, "TypeError")
             ELSE IF nr <= now THEN IssueLogin(h, "pre")
             ELSE APIAfterRefresh(h, tok, nr)

\* The checks send_request makes of a response once the 401 case is past.
APIClassify(k, r) ==
    IF ~r.json THEN Raise(k, "ContentTypeError")
    ELSE IF r.code = "0" THEN Return(k)
    ELSE IF r.code \in DOMAIN API_RESPONSE_STATUS_CODE_MAPPING
         THEN Raise(k, API_RESPONSE_STATUS_CODE_MAPPING[r.code])
    ELSE Raise(k, "UnknownEndpointError")

\* refresh_login's deadline: set on the first login, pushed on later ones.
APINextRefresh(nr) ==
    IF nr = NoTime THEN now + Minutes(API_REFRESH_MINUTES)
    ELSE nr + Minutes(API_REFRESH_MINUTES)

\* Where the coroutine goes on once refresh_login has stored the new token.
APIResume(k, tok, nr) ==
    IF k.cont = "caller" THEN Return(k)
    ELSE APIAfterRefresh(k, tok, nr)

\* A caller awaits send_request(endpoint, body).
APIDispatch(t, ep) ==
    /\ variant = "API"
    /\ UNCHANGED client
    /\ UNCHANGED device
    /\ UNCHANGED pkce
    /\ UNCHANGED just_logged_in
    /\ UNCHANGED verifiers_sent
    /\ task[t].pc = "idle"
    /\ SetTask(t, APISendRequest(Start(StartNull), ep, access_token, next_refresh))
    /\ UNCHANGED <<variant, access_token, auth_data, next_refresh, account_number,
                   now, cleared_by>>

\* A caller awaits refresh_login(), as create_via_login and get_usages do.
APIRefreshLogin(t) ==
    /\ variant = "API"
    /\ UNCHANGED client
    /\ UNCHANGED device
    /\ UNCHANGED pkce
    /\ UNCHANGED just_logged_in
    /\ UNCHANGED verifiers_sent
    /\ task[t].pc = "idle"
    /\ access_token = None
    /\ next_refresh <= MaxTime
    /\ SetTask(t, IssueLogin(Start(StartNull), "caller"))
    /\ UNCHANGED <<variant, access_token, auth_data, next_refresh, account_number,
                   now, cleared_by>>

\* The response to send_request("login") arrives inside refresh_login.
APIRecvLogin(t) ==
    /\ variant = "API"
    /\ UNCHANGED client
    /\ UNCHANGED device
    /\ UNCHANGED pkce
    /\ UNCHANGED verifiers_sent
    /\ task[t].pc = "login_http"
    /\ \E r \in Responses, tok \in Tokens \cup {None}, acct \in Accounts :
          IF r.status = 401
          THEN /\ access_token' = None
               /\ cleared_by' = IF access_token = None THEN cleared_by ELSE "401"
               /\ just_logged_in' = FALSE
               /\ SetTask(t, Raise(task[t], "ExpiredAccessTokenError"))
               /\ UNCHANGED <<account_number, next_refresh>>
          ELSE IF r.json /\ r.code = "0"
          THEN /\ access_token' = tok
               /\ account_number' = acct
               /\ next_refresh' = APINextRefresh(next_refresh)
               /\ cleared_by' = IF tok = None THEN "login_null" ELSE "none"
               /\ just_logged_in' = (tok # None)
               /\ SetTask(t, APIResume(task[t], tok, APINextRefresh(next_refresh)))
          ELSE /\ SetTask(t, APIClassify(task[t], r))
               /\ UNCHANGED <<access_token, account_number, next_refresh, cleared_by,
                              just_logged_in>>
    /\ UNCHANGED <<variant, auth_data, now>>

\* The response to the named call arrives.
APIRecvCall(t) ==
    /\ variant = "API"
    /\ UNCHANGED client
    /\ UNCHANGED device
    /\ UNCHANGED pkce
    /\ UNCHANGED verifiers_sent
    /\ task[t].pc = "call_http"
    /\ \E r \in Responses :
          LET k == [task[t] EXCEPT !.lastStatus = r.status]
          IN  IF r.status = 401
              THEN /\ access_token' = None
                   /\ cleared_by' = IF access_token = None THEN cleared_by ELSE "401"
                   /\ just_logged_in' = FALSE
                   /\ SetTask(t, Raise([k EXCEPT !.since401 = "rejected"],
                                       "ExpiredAccessTokenError"))
              ELSE /\ SetTask(t, APIClassify([k EXCEPT !.lastBody = Body(r)], r))
                   /\ UNCHANGED <<access_token, cleared_by, just_logged_in>>
    /\ UNCHANGED <<variant, auth_data, next_refresh, account_number, now>>

----------------------------------------------------------------------------
(* MSOB2CAuth *)

\* _pkce_verifier: a class attribute, drawn once when the class body runs and
\* assigned nowhere else, so every instance and every login reads this value.
pkce_verifier == "verifier_of_class"

\* build_code_challenge: the S256 challenge of a verifier.
build_code_challenge(v) == "S256_" \o v

\* _state and _csrf_token as the class body leaves them.
ClassPkce == [state |-> "state_of_class", csrf |-> ""]

\* The state nonce _get_initial_auth_data draws for the login coroutine t runs,
\* and the CSRF token the authorize page of that login carries.
StateOf(t) == "state_" \o t
CsrfOf(t) == "csrf_" \o t

\* Instance attributes once coroutine t, whose record becomes k, has run up to
\* its next await: a login that starts has drawn a new _state.
PkceAfterStart(t, k) ==
    IF k.pc = "authorize_http" THEN [pkce EXCEPT !.state = StateOf(t)] ELSE pkce

FlowPcs == {"authorize_http", "self_asserted_http", "confirm_http", "token_http"}

\* get_authenticated_headers: bearer token plus fixed subscription key.
MSOHeaders(ad) == [tok |-> ad.access_token, partner |-> "subscription-key"]

\* send_request from the token check after the refresh to the request going out.
MSOAfterRefresh(k, tok, nr) ==
    IF tok = None THEN Raise(k, "ExpiredAccessTokenError")
    ELSE IssueCall(k, tok, nr)

\* send_login_request starts: _get_initial_auth_data awaits the authorize page.
MSOIssueAuthorize(k, c) ==
    [k EXCEPT !.pc = "authorize_http", !.cont = c, !.logins = Inc(@),
              !.flow = "running", !.trail = <<>>,
              !.sent = [NoneSent EXCEPT !.challenge = build_code_challenge(pkce_verifier)]]

\* send_request from its first line to its first network await.
MSOSendRequest(k, ep, ad, nr) ==
    IF ep \notin AW_APP_ENDPOINTS THEN Raise([k EXCEPT !.ep = ep], "ValueError")
    ELSE IF ~ad.present THEN Raise([k EXCEPT !.ep = ep], "AttributeError")
    ELSE LET h == [k EXCEPT !.ep = ep, !.hdr = MSOHeaders(ad)]
             r == send_refresh_request(ad.access_token, nr)
         IN  IF r = "login" THEN MSOIssueAuthorize(h, "pre")
             ELSE IF r = "return" THEN MSOAfterRefresh(h, ad.access_token, nr)
             ELSE Raise(h, r)

\* send_login_request returns (None) to whoever awaited it; ad and nr are the
\* token state it leaves behind.
MSOResume(k, ad, nr) ==
    IF k.cont = "caller" THEN Return(k)
    ELSE MSOAfterRefresh([k EXCEPT !.sent = NoneSent], ad.access_token, nr)

\* MSOGiveUp without the early return: the flow goes on to the token request.
MSOGiveUp_GoesOn(k, why, ad, nr) ==
    IF k.pc = "token_http"
    THEN MSOResume([k EXCEPT !.flow = why, !.trail = Append(@, why)], ad, nr)
    ELSE [k EXCEPT !.pc = "token_http", !.trail = Append(@, why)]

\* A step came back without what the flow needs: the helper returns None and
\* send_login_request returns early.  trail lists what the steps of this login
\* came back with.
MSOGiveUp(k, why, ad, nr) ==
    MSOResume([k EXCEPT !.flow = why, !.trail = Append(@, why)], ad, nr)

MSOCleared(ad) == IF ad.access_token = None THEN "login_null" ELSE "none"

\* A caller awaits send_request(endpoint, body).
MSODispatch(t, ep) ==
    /\ variant = "MSOB2CAuth"
    /\ UNCHANGED client
    /\ UNCHANGED device
    /\ UNCHANGED just_logged_in
    /\ UNCHANGED verifiers_sent
    /\ task[t].pc = "idle"
    /\ SetTask(t, MSOSendRequest(Start(StartNull), ep, auth_data, next_refresh))
    /\ pkce' = PkceAfterStart(t, MSOSendRequest(Start(StartNull), ep, auth_data, next_refresh))
    /\ UNCHANGED <<variant, access_token, auth_data, next_refresh, account_number,
                   now, cleared_by>>

\* A caller awaits send_login_request().
MSOLogin(t) ==
    /\ variant = "MSOB2CAuth"
    /\ UNCHANGED client
    /\ UNCHANGED device
    /\ UNCHANGED just_logged_in
    /\ UNCHANGED verifiers_sent
    /\ task[t].pc = "idle"
    /\ auth_data.access_token = None
    /\ SetTask(t, MSOIssueAuthorize(Start(StartNull), "caller"))
    /\ pkce' = PkceAfterStart(t, MSOIssueAuthorize(Start(StartNull), "caller"))
    /\ UNCHANGED <<variant, access_token, auth_data, next_refresh, account_number,
                   now, cleared_by>>

\* The authorize page arrives; with CSRF token and transaction id, the token
\* is stored in _csrf_token and the credentials are posted with it and with
\* whatever _state holds by now.
MSORecvAuthorize(t) ==
    /\ variant = "MSOB2CAuth"
    /\ UNCHANGED client
    /\ UNCHANGED device
    /\ UNCHANGED just_logged_in
    /\ UNCHANGED verifiers_sent
    /\ task[t].pc = "authorize_http"
    /\ \E page \in AuthorizePages :
          IF page = "ok"
          THEN /\ pkce' = [pkce EXCEPT !.csrf = CsrfOf(t)]
               /\ SetTask(t, [task[t] EXCEPT !.pc = "self_asserted_http",
                                              !.trail = Append(@, page),
                                              !.sent.saCsrf = CsrfOf(t),
                                              !.sent.saState = pkce.state])
          ELSE /\ SetTask(t, MSOGiveUp(task[t], page, auth_data, next_refresh))
               /\ UNCHANGED pkce
    /\ UNCHANGED <<variant, access_token, auth_data, next_refresh, account_number,
                   now, cleared_by>>

\* The answer to the credential form arrives; when accepted the confirmation
\* URL is requested with whatever _csrf_token and _state hold by now.
MSORecvSelfAsserted(t) ==
    /\ variant = "MSOB2CAuth"
    /\ UNCHANGED client
    /\ UNCHANGED device
    /\ UNCHANGED pkce
    /\ UNCHANGED just_logged_in
    /\ UNCHANGED verifiers_sent
    /\ task[t].pc = "self_asserted_http"
    /\ \E res \in SelfAssertedResults :
          IF res = "ok"
          THEN SetTask(t, [task[t] EXCEPT !.pc = "confirm_http", !.trail = Append(@, res),
                                          !.sent.cfCsrf = pkce.csrf,
                                          !.sent.cfState = pkce.state])
          ELSE IF res = "not_json"
          THEN SetTask(t, Raise([task[t] EXCEPT !.flow = res, !.trail = Append(@, res)], "ContentTypeError"))
          ELSE SetTask(t, MSOGiveUp(task[t], res, auth_data, next_refresh))
    /\ UNCHANGED <<variant, access_token, auth_data, next_refresh, account_number,
                   now, cleared_by>>

\* The confirmation answer arrives; with a 302 whose Location holds a code the
\* token is requested, code_verifier being the class's _pkce_verifier.
MSORecvConfirm(t) ==
    /\ variant = "MSOB2CAuth"
    /\ UNCHANGED client
    /\ UNCHANGED device
    /\ UNCHANGED pkce
    /\ UNCHANGED just_logged_in
    /\ task[t].pc = "confirm_http"
    /\ \E res \in ConfirmResults :
          IF res = "ok"
          THEN /\ SetTask(t, [task[t] EXCEPT !.pc = "token_http", !.trail = Append(@, res),
                                               !.sent.verifier = pkce_verifier])
               /\ verifiers_sent' = verifiers_sent \cup {pkce_verifier}
          ELSE /\ SetTask(t, MSOGiveUp(task[t], res, auth_data, next_refresh))
               /\ UNCHANGED verifiers_sent
    /\ UNCHANGED <<variant, access_token, auth_data, next_refresh, account_number,
                   now, cleared_by>>

\* The token endpoint answers and failed: _get_token returns None.
MSORecvTokenFailure(t) ==
    /\ variant = "MSOB2CAuth"
    /\ UNCHANGED client
    /\ UNCHANGED device
    /\ UNCHANGED pkce
    /\ UNCHANGED just_logged_in
    /\ UNCHANGED verifiers_sent
    /\ task[t].pc = "token_http"
    /\ \E res \in TokenFailures :
          SetTask(t, MSOGiveUp(task[t], res, auth_data, next_refresh))
    /\ UNCHANGED <<variant, access_token, auth_data, next_refresh, account_number,
                   now, cleared_by>>

\* The token endpoint answers 200 with JSON: the payload is stored, then the
\* deadline is computed from its expires_in, which raises when there is none.
MSORecvToken(t) ==
    /\ variant = "MSOB2CAuth"
    /\ UNCHANGED client
    /\ UNCHANGED device
    /\ UNCHANGED pkce
    /\ UNCHANGED verifiers_sent
    /\ task[t].pc = "token_http"
    /\ \E token_response \in TokenPayloads :
          /\ auth_data' = token_response
          /\ cleared_by' = MSOCleared(token_response)
          /\ IF token_response.expires_in = NoTime
             THEN /\ SetTask(t, Raise([task[t] EXCEPT !.flow = "KeyError", !.trail = Append(@, "ok")], "KeyError"))
                  /\ just_logged_in' = FALSE
                  /\ UNCHANGED next_refresh
             ELSE /\ next_refresh' = now + token_response.expires_in
                  /\ just_logged_in' = (token_response.access_token # None)
                  /\ SetTask(t, MSOResume([task[t] EXCEPT !.flow = "committed", !.trail = Append(@, "ok")],
                                          token_response,
                                          now + token_response.expires_in))
    /\ UNCHANGED <<variant, access_token, account_number, now>>

\* The response to the named call arrives.
MSORecvCall(t) ==
    /\ variant = "MSOB2CAuth"
    /\ UNCHANGED client
    /\ UNCHANGED device
    /\ UNCHANGED pkce
    /\ UNCHANGED just_logged_in
    /\ UNCHANGED verifiers_sent
    /\ task[t].pc = "call_http"
    /\ \E r \in Responses :
          LET k == [task[t] EXCEPT !.lastStatus = r.status]
              b == [k EXCEPT !.lastBody = Body(r)]
          IN  IF StatusOk(r.status) /\ r.json THEN SetTask(t, Return(b))
              ELSE IF r.status = 401 \/ r.status = 403
              THEN SetTask(t, Raise([k EXCEPT !.since401 = "rejected"],
                                    "ExpiredAccessTokenError"))
              ELSE SetTask(t, Raise(b, "UnknownEndpointError"))
    /\ UNCHANGED <<variant, access_token, auth_data, next_refresh, account_number,
                   now, cleared_by>>

----------------------------------------------------------------------------
(* Construction *)

\* Device ids a caller can supply; None when it supplies none.
DeviceArgs == {None, "dev1"}
\* What secrets.token_hex(8) returns.
GeneratedId == "generated_hex"

\* LegacyAuth.__init__ that marks every device as new and draws its id.
LegacyAuthInit_AlwaysNew(device_id) ==
    [device_id |-> GeneratedId, new_device |-> TRUE]

\* LegacyAuth.__init__: a supplied device id is kept and the device is not
\* new; with none, an id is drawn and _new_device stays True.
LegacyAuthInit(device_id) ==
    IF device_id # None
    THEN [device_id |-> device_id, new_device |-> FALSE]
    ELSE [device_id |-> GeneratedId, new_device |-> TRUE]

\* device_id of MSOB2CAuth built without one, and of the API class before a
\* classmethod sets it; neither has _new_device.
NoDevice == [device_id |-> None, new_device |-> FALSE]

\* No classmethod and no get_usages has run.  made: whether the object exists
\* for its user; step, log: the calls of create_via_login finished so far;
\* registered: the four registration calls have all been made; stage .. error:
\* the running or last get_usages.
NoClient ==
    [dev_arg |-> None, create |-> "none", made |-> "none", step |-> 0, log |-> <<>>,
     registered |-> FALSE, waited |-> FALSE,
     stage |-> "none", retry |-> FALSE, tries |-> 0, refreshes |-> 0,
     requests |-> 0, error |-> "none"]

----------------------------------------------------------------------------
(* Time *)

Tick(d) ==
    /\ now + d <= MaxTime
    /\ UNCHANGED client
    /\ UNCHANGED device
    /\ UNCHANGED pkce
    /\ UNCHANGED verifiers_sent
    /\ just_logged_in' = FALSE
    /\ now' = now + d
    /\ UNCHANGED <<variant, access_token, auth_data, next_refresh, account_number,
                   cleared_by, task>>

----------------------------------------------------------------------------

Init ==
    /\ variant \in Variants
    /\ access_token = None
    /\ auth_data = NoData
    /\ next_refresh = NoTime
    /\ account_number = None
    /\ now = 0
    /\ cleared_by = "never"
    /\ task = [t \in Tasks |-> IdleTask]
    /\ verifiers_sent = {}
    /\ just_logged_in = FALSE
    /\ pkce = ClassPkce
    /\ device = (IF variant = "LegacyAuth" THEN LegacyAuthInit(None) ELSE NoDevice)
    /\ client = NoClient

Next ==
    \/ \E d \in TickSteps : Tick(d)
    \/ \E t \in Tasks, ep \in RequestedEndpoints : LegacyDispatch(t, ep)
    \/ \E t \in Tasks : LegacyLogin(t)
    \/ \E t \in Tasks : LegacyRecvLogin(t)
    \/ \E t \in Tasks : LegacyRecvCall(t)
    \/ \E t \in Tasks, ep \in RequestedEndpoints : APIDispatch(t, ep)
    \/ \E t \in Tasks : APIRefreshLogin(t)
    \/ \E t \in Tasks : APIRecvLogin(t)
    \/ \E t \in Tasks : APIRecvCall(t)
    \/ \E t \in Tasks, ep \in RequestedEndpoints : MSODispatch(t, ep)
    \/ \E t \in Tasks : MSOLogin(t)
    \/ \E t \in Tasks : MSORecvAuthorize(t)
    \/ \E t \in Tasks : MSORecvSelfAsserted(t)
    \/ \E t \in Tasks : MSORecvConfirm(t)
    \/ \E t \in Tasks : MSORecvTokenFailure(t)
    \/ \E t \in Tasks : MSORecvToken(t)
    \/ \E t \in Tasks : MSORecvCall(t)

Spec == Init /\ [][Next]_vars

\* Every response that is awaited arrives and the coroutine awaiting it is
\* resumed: the event loop runs every ready coroutine.
Recv(t) ==
    \/ LegacyRecvLogin(t) \/ LegacyRecvCall(t)
    \/ APIRecvLogin(t) \/ APIRecvCall(t)
    \/ MSORecvAuthorize(t) \/ MSORecvSelfAsserted(t) \/ MSORecvConfirm(t)
    \/ MSORecvTokenFailure(t) \/ MSORecvToken(t) \/ MSORecvCall(t)

FairSpec == Spec /\ \A t \in Tasks : WF_vars(Recv(t))

----------------------------------------------------------------------------
(* Objects from construction on: LegacyAuth(...), API.create_via_login*,    *)
(* AnglianWater.get_usages.  One coroutine uses the object.                 *)

\* aiohttp's default ClientTimeout(total=300): no request is awaited longer.
REQUEST_TIMEOUT == 300

\* CreateCalls with the warm-up calls ahead of the registration calls.
CreateCalls_WarmUpFirst ==
    << [ep |-> "get_dashboard_details", PartternSetup |-> "absent"],
       [ep |-> "get_bills_payments", PartternSetup |-> "absent"],
       [ep |-> "register_device", PartternSetup |-> "False"],
       [ep |-> "register_device", PartternSetup |-> "True"] >>

\* The calls create_via_login makes after refresh_login, in program order.
CreateCalls ==
    << [ep |-> "register_device", PartternSetup |-> "False"],
       [ep |-> "register_device", PartternSetup |-> "True"],
       [ep |-> "get_dashboard_details", PartternSetup |-> "absent"],
       [ep |-> "get_bills_payments", PartternSetup |-> "absent"] >>

\* The call create_via_login is awaiting or has just finished.
CreateCall(step) ==
    IF step = 0 THEN [ep |-> "login", PartternSetup |-> "absent"] ELSE CreateCalls[step]

\* What a finished call k of a classmethod adds to the log: which call it was,
\* the requests it made and how it ended.
LogEntry(step, k) ==
    [ep |-> CreateCall(step).ep, PartternSetup |-> CreateCall(step).PartternSetup,
     attempts |-> k.attempts, logins |-> k.logins, outcome |-> k.outcome]

\* API.create_via_login(email, password): a device id is drawn and
\* refresh_login awaited.
CreateViaLogin(t) ==
    /\ variant = "API"
    /\ client.made = "none"
    /\ task[t].pc = "idle"
    /\ device' = [device EXCEPT !.device_id = GeneratedId]
    /\ client' = [client EXCEPT !.create = "create_via_login", !.made = "running"]
    /\ SetTask(t, IssueLogin(Start(StartNull), "caller"))
    /\ UNCHANGED <<variant, access_token, auth_data, next_refresh, account_number,
                   now, cleared_by, verifiers_sent, just_logged_in, pkce>>

\* API.create_via_login_existing_device(email, password, dev_id): the id is
\* stored and refresh_login awaited.
CreateViaLoginExistingDevice(t, dev_id) ==
    /\ variant = "API"
    /\ client.made = "none"
    /\ task[t].pc = "idle"
    /\ device' = [device EXCEPT !.device_id = dev_id]
    /\ client' = [client EXCEPT !.create = "create_via_login_existing_device",
                                !.dev_arg = dev_id, !.made = "running"]
    /\ SetTask(t, IssueLogin(Start(StartNull), "caller"))
    /\ UNCHANGED <<variant, access_token, auth_data, next_refresh, account_number,
                   now, cleared_by, verifiers_sent, just_logged_in, pkce>>

\* The classmethod goes on after the call it awaited: an exception leaves it,
\* and no object is returned; otherwise the next call is made, or self is
\* returned when none is left.
CreateResume(t) ==
    /\ variant = "API"
    /\ client.made = "running"
    /\ task[t].pc = "idle"
    /\ LET log == Append(client.log, LogEntry(client.step, task[t]))
           last == IF client.create = "create_via_login" THEN Len(CreateCalls) ELSE 0
       IN  IF task[t].outcome # "ok"
           THEN /\ client' = [client EXCEPT !.log = log, !.made = "raised"]
                /\ UNCHANGED task
           ELSE IF client.step = last
           THEN /\ client' = [client EXCEPT !.log = log, !.made = "returned",
                                            !.registered = (last = Len(CreateCalls))]
                /\ UNCHANGED task
           ELSE /\ client' = [client EXCEPT !.log = log, !.step = @ + 1,
                                            !.waited = FALSE]
                /\ SetTask(t, APISendRequest(Start(StartNull),
                                             CreateCalls[client.step + 1].ep,
                                             access_token, next_refresh))
    /\ UNCHANGED <<variant, access_token, auth_data, next_refresh, account_number,
                   now, cleared_by, verifiers_sent, just_logged_in, pkce, device>>

\* get_usages' except clause without its retry flag: it always refreshes.
UsageOnExpired_NoFlag(retry) == "refresh"

\* get_usages' except clause: refresh_login on the first
\* ExpiredAccessTokenError, raise on the next.
UsageOnExpired(retry) == IF ~retry THEN "refresh" ELSE "raise"

\* AnglianWater.get_usages(start, end) on the object a classmethod returned:
\* retry = False and the first send_request("get_usage_details").
GetUsages(t) ==
    /\ variant = "API"
    /\ client.made = "returned"
    /\ client.stage \notin {"call", "refresh"}
    /\ task[t].pc = "idle"
    /\ next_refresh <= MaxTime
    /\ client' = [client EXCEPT !.stage = "call", !.retry = FALSE, !.tries = 1,
                                !.refreshes = 0, !.requests = 0, !.error = "none",
                                !.waited = FALSE]
    /\ SetTask(t, APISendRequest(Start(StartNull), "get_usage_details",
                                 access_token, next_refresh))
    /\ UNCHANGED <<variant, access_token, auth_data, next_refresh, account_number,
                   now, cleared_by, verifiers_sent, just_logged_in, pkce, device>>

\* get_usages goes on after what it awaited.  After send_request: break and
\* return, or the except clause, or another exception leaves it.  After
\* refresh_login in the except clause: retry = True and the loop runs again.
GetUsagesResume(t) ==
    /\ variant = "API"
    /\ client.stage \in {"call", "refresh"}
    /\ task[t].pc = "idle"
    /\ LET c == [client EXCEPT !.requests = IF client.stage = "call"
                                             THEN Capped(@ + task[t].attempts)
                                             ELSE @,
                               !.waited = FALSE]
           e == task[t].outcome
       IN  IF client.stage = "call"
           THEN IF e = "ok"
                THEN /\ client' = [c EXCEPT !.stage = "returned"]
                     /\ UNCHANGED task
                ELSE IF e = "ExpiredAccessTokenError" /\ UsageOnExpired(client.retry) = "refresh"
                THEN /\ client' = [c EXCEPT !.stage = "refresh", !.refreshes = Inc(@)]
                     /\ SetTask(t, IssueLogin(Start(StartNull), "caller"))
                ELSE /\ client' = [c EXCEPT !.stage = "raised", !.error = e]
                     /\ UNCHANGED task
           ELSE IF e = "ok"
                THEN /\ client' = [c EXCEPT !.stage = "call", !.retry = TRUE,
                                            !.tries = Inc(@)]
                     /\ SetTask(t, APISendRequest(Start(StartNull), "get_usage_details",
                                                  access_token, next_refresh))
                ELSE /\ client' = [c EXCEPT !.stage = "raised", !.error = e]
                     /\ UNCHANGED task
    /\ UNCHANGED <<variant, access_token, auth_data, next_refresh, account_number,
                   now, cleared_by, verifiers_sent, just_logged_in, pkce, device>>

\* Time passes while a request of the object is awaited, the session's timeout
\* at most.
AwaitTimeout(t) ==
    /\ variant = "API"
    /\ task[t].pc \in {"login_http", "call_http"}
    /\ ~client.waited
    /\ now + REQUEST_TIMEOUT <= MaxTime
    /\ now' = now + REQUEST_TIMEOUT
    /\ just_logged_in' = FALSE
    /\ client' = [client EXCEPT !.waited = TRUE]
    /\ UNCHANGED <<variant, access_token, auth_data, next_refresh, account_number,
                   cleared_by, task, verifiers_sent, pkce, device>>

\* Time passes while nothing runs on an API object.
IdleTick(d) ==
    /\ variant = "API" => client.made = "returned" /\ client.stage \notin {"call", "refresh"}
    /\ Tick(d)

\* LegacyAuth(username, password, device_id=...) has been constructed; the API
\* class has no object yet.
ClientInit ==
    /\ variant \in {"LegacyAuth", "API"}
    /\ access_token = None
    /\ auth_data = NoData
    /\ next_refresh = NoTime
    /\ account_number = None
    /\ now = 0
    /\ cleared_by = "never"
    /\ task = [t \in Tasks |-> IdleTask]
    /\ verifiers_sent = {}
    /\ just_logged_in = FALSE
    /\ pkce = ClassPkce
    /\ \E device_id \in DeviceArgs :
          IF variant = "LegacyAuth"
          THEN /\ device = LegacyAuthInit(device_id)
               /\ client = [NoClient EXCEPT !.dev_arg = device_id, !.create = "__init__",
                                            !.made = "returned"]
          ELSE /\ device = NoDevice
               /\ client = NoClient

ClientNext ==
    \/ \E d \in TickSteps : IdleTick(d)
    \/ \E t \in Observed : AwaitTimeout(t)
    \/ \E t \in Observed : CreateViaLogin(t)
    \/ \E t \in Observed, dev_id \in DeviceArgs \ {None} : CreateViaLoginExistingDevice(t, dev_id)
    \/ \E t \in Observed : CreateResume(t)
    \/ \E t \in Observed : GetUsages(t)
    \/ \E t \in Observed : GetUsagesResume(t)
    \/ \E t \in Observed : APIRecvLogin(t)
    \/ \E t \in Observed : APIRecvCall(t)
    \/ \E t \in Observed, ep \in RequestedEndpoints : LegacyDispatch(t, ep)
    \/ \E t \in Observed : LegacyLogin(t)
    \/ \E t \in Observed : LegacyRecvLogin(t)
    \/ \E t \in Observed : LegacyRecvCall(t)

ClientSpec == ClientInit /\ [][ClientNext]_vars

----------------------------------------------------------------------------
(* Properties *)

CurrentToken ==
    IF variant = "MSOB2CAuth" THEN auth_data.access_token ELSE access_token

Catalog ==
    IF variant = "LegacyAuth" THEN LEGACY_API_ENDPOINTS
    ELSE IF variant = "API" THEN API_ENDPOINTS \ {"login"}
    ELSE AW_APP_ENDPOINTS

LoginPcs == FlowPcs \cup {"login_http"}

\* C1: a dispatch whose call is answered 401 re-issues the call exactly once;
\* a dispatch that ends on a 401 has made two attempts and raises
\* ExpiredAccessTokenError; no dispatch makes more than two attempts.
C1_RetryExactlyOnce ==
    \A t \in Observed :
        /\ task[t].attempts <= 2
        /\ (task[t].pc = "idle" /\ task[t].lastStatus = 401)
              => (task[t].attempts = 2 /\ task[t].outcome = "ExpiredAccessTokenError")

\* C2: every dispatch that has started eventually ends, whatever the server
\* answers.
C2_DispatchTerminates ==
    \A t \in Observed : (task[t].pc # "idle") ~> (task[t].pc = "idle")

\* C3: a call is never re-issued after a 401/403 without a login request
\* having gone out since that response.
C3_RetryAfterForcedRefresh ==
    \A t \in Observed :
        task[t].pc = "call_http" => task[t].since401 # "rejected"

\* C4: refreshes started by dispatches on one authenticator exclude each
\* other: at most one of them has a login exchange in flight.
C4_OneRefreshAtATime ==
    Cardinality({t \in Tasks : task[t].pc \in LoginPcs /\ task[t].cont # "caller"}) <= 1

\* C5: whenever the request for a non-login endpoint is in flight, the
\* authenticator held an access token at the moment it was issued.
C5_NoCallWithoutToken ==
    \A t \in Observed :
        task[t].pc = "call_http" => task[t].issuedTok # None

\* C5 witness: a dispatch that began with no token has its request in flight
\* (the token was obtained by the refresh inside the dispatch).
C5_Witness ==
    \E t \in Observed :
        /\ task[t].pc = "call_http"
        /\ task[t].startNull # "held"
        /\ task[t].issuedTok # None

\* C6: a dispatch for a catalog endpoint that began with no token ends with
\* ExpiredAccessTokenError and has issued no request, login or call.
C6_NoTokenFailsExpired ==
    \A t \in Observed :
        (task[t].startNull # "held" /\ task[t].ep \in Catalog)
            => /\ task[t].attempts = 0
               /\ task[t].logins = 0
               /\ task[t].pc = "idle"
               /\ task[t].outcome = "ExpiredAccessTokenError"

\* C7: the step in which a dispatch receives a 503 ends the dispatch with
\* ServiceUnavailableError and leaves the authenticator without a token.
C7_On503ClearsAndRaises ==
    [][\A t \in Observed :
          (task[t].pc = "call_http" /\ task'[t].lastStatus = 503)
             => /\ task'[t].pc = "idle"
                /\ task'[t].outcome = "ServiceUnavailableError"
                /\ CurrentToken' = None]_vars

\* C8: a dispatch that began after a 503 had cleared the token issues a login
\* request before it ends.
C8_RecoversAfter503 ==
    \A t \in Observed :
        (task[t].startNull = "503" /\ task[t].ep \in Catalog /\ task[t].pc = "idle")
            => task[t].logins >= 1

\* C9: the headers of a request in flight carry the token the authenticator
\* held at the moment the request was issued.
C9_HeadersCarryCurrentToken ==
    \A t \in Observed :
        task[t].pc = "call_http" => task[t].hdr.tok = task[t].issuedTok

\* C10: a step that ends the PKCE login in failure leaves auth_data and
\* next_refresh as they were.
C10_FailedLoginKeepsTokenState ==
    [][\A t \in Observed :
          (task[t].pc \in FlowPcs /\ task'[t].flow \notin {"running", "committed"})
             => UNCHANGED <<auth_data, next_refresh>>]_vars

\* C11: the step in which the credential form of the PKCE login comes back
\* rejected ends the login with InvalidCredentialsError raised to its caller,
\* and a token that was null stays null.
C11_RejectedCredentialsRaise ==
    [][\A t \in Observed :
          (task[t].pc = "self_asserted_http" /\ task'[t].flow = "rejected")
             => /\ task'[t].pc = "idle"
                /\ task'[t].outcome = "InvalidCredentialsError"
                /\ (CurrentToken = None => CurrentToken' = None)]_vars

\* The ways a step of the PKCE login comes back without what the protocol
\* promises: no settings block, no CSRF token or transaction id, no redirect,
\* no Location, no code, no token response.
ProtocolFailures ==
    {"no_settings", "no_csrf_or_trans_id", "not_302", "no_location", "no_code",
     "not_200", "bad_json"}

\* C12: the step in which the PKCE login meets a protocol failure ends the
\* login with FlowProtocolError raised to its caller.
C12_ProtocolFailureRaises ==
    [][\A t \in Observed :
          (task[t].pc \in FlowPcs /\ task'[t].flow \in ProtocolFailures)
             => /\ task'[t].pc = "idle"
                /\ task'[t].outcome = "FlowProtocolError"]_vars

\* C13: within one PKCE login the credential POST is in flight only after the
\* authorize step yielded CSRF token and transaction id, the confirmation GET
\* only after the credentials were accepted as well, the token POST only after
\* a 302 whose Location carries a code as well, the commit only after the token
\* answer; and no request of the flow is in flight once a step has failed.
C13_FlowInOrder ==
    \A t \in Observed :
        /\ task[t].pc = "authorize_http" => task[t].trail = <<>>
        /\ task[t].pc = "self_asserted_http" => task[t].trail = <<"ok">>
        /\ task[t].pc = "confirm_http" => task[t].trail = <<"ok", "ok">>
        /\ task[t].pc = "token_http" => task[t].trail = <<"ok", "ok", "ok">>
        /\ task[t].flow = "committed" => task[t].trail = <<"ok", "ok", "ok", "ok">>
        /\ task[t].pc \in FlowPcs => task[t].flow = "running"

\* C13 witness: a login has its token request in flight after three steps.
C13_Witness ==
    \E t \in Observed : task[t].pc = "token_http" /\ Len(task[t].trail) = 3

\* C14: a login never sends to the token endpoint a code verifier that an
\* earlier token request has carried.
C14_VerifierFreshPerAttempt ==
    [][\A t \in Tasks :
          (task[t].pc = "confirm_http" /\ task'[t].pc = "token_http")
             => verifiers_sent' \ verifiers_sent # {}]_vars

\* C15: a dispatch of the PKCE variant that finds the deadline passed while a
\* refresh token is held does not open with the authorize request of the full
\* flow: the full flow starts from a dispatch only when no refresh token is held.
C15_RefreshTokenFirst ==
    [][\A t \in Observed :
          (task[t].pc = "idle" /\ task'[t].pc = "authorize_http" /\ task'[t].cont = "pre")
             => auth_data.refresh_token = None]_vars

\* The authenticator holds a token whose refresh deadline lies ahead.
TokenFresh ==
    CurrentToken # None /\ next_refresh # NoTime /\ now < next_refresh

\* C16: while a token is held and now < next_refresh, a step of a coroutine
\* that is about to refresh (a dispatch starting, a 401 being answered) issues
\* no login request, and a dispatch's first segment, which is where the
\* refresh is called, changes nothing of the authenticator.
C16_RefreshNoOpBeforeDeadline ==
    [][\A t \in Observed :
          (TokenFresh /\ task[t].pc \in {"idle", "call_http"} /\ task'[t] # task[t])
             => /\ task'[t].pc \notin LoginPcs
                /\ task'[t].logins = (IF task[t].pc = "idle" THEN 0 ELSE task[t].logins)
                /\ task[t].pc = "idle" =>
                      UNCHANGED <<access_token, auth_data, next_refresh, account_number>>]_vars

\* C16 witness: a dispatch that has called the refresh twice before the
\* deadline (at its start and on a 401) has its request in flight with no
\* login made.
C16_Witness ==
    \E t \in Observed :
        /\ TokenFresh
        /\ task[t].pc = "call_http"
        /\ task[t].attempts = 2
        /\ task[t].logins = 0

\* A dispatch of t that began with a token held and the deadline passed.
StaleDispatch(t) ==
    task[t].ep \in Catalog /\ task[t].startNull = "held" /\ task[t].startDue

\* C17: a dispatch that began with a token held and the deadline passed has
\* made exactly one login exchange, begun before any request for the endpoint
\* and ended by the time its first request for the endpoint is in flight.
C17_OneRefreshBeforeCall ==
    \A t \in Observed :
        StaleDispatch(t)
            => /\ task[t].pc \in LoginPcs /\ task[t].logins = 1 => task[t].attempts = 0
               /\ task[t].pc = "call_http" /\ task[t].attempts = 1 => task[t].logins = 1

\* C17 witness: the first request of such a dispatch is in flight after its
\* one login exchange.
C17_Witness ==
    \E t \in Observed :
        /\ StaleDispatch(t)
        /\ task[t].pc = "call_http"
        /\ task[t].attempts = 1
        /\ task[t].logins = 1

\* C18: the step that commits a PKCE login leaves a refresh deadline strictly
\* earlier than the token's expiry, which is no later than the moment the
\* answer is received plus the payload's expires_in.
C18_DeadlineBeforeExpiry ==
    [][\A t \in Observed :
          (task[t].pc = "token_http" /\ task'[t].flow = "committed")
             => next_refresh' < now + auth_data'.expires_in]_vars

\* C19: a dispatch for a catalog endpoint that starts at the instant a login
\* has succeeded issues its request in its first segment, with no login
\* exchange before it.
C19_DispatchRightAfterLogin ==
    [][\A t \in Observed :
          (just_logged_in /\ task[t].pc = "idle" /\ task'[t] # task[t]
             /\ task'[t].ep \in Catalog)
             => /\ task'[t].pc = "call_http"
                /\ task'[t].logins = 0]_vars

\* C20: a dispatch whose endpoint name is not in the variant's catalog has
\* ended, and ended with UnknownEndpointError.
C20_UnknownEndpointError ==
    \A t \in Observed :
        (task[t].ep # "none" /\ task[t].ep \notin Catalog)
            => /\ task[t].pc = "idle"
               /\ task[t].outcome = "UnknownEndpointError"

\* C21: the step in which a dispatch for a name outside the catalog starts also
\* ends it, with no login exchange and no call issued, and leaves token,
\* deadline and account data as they were.
C21_UnknownEndpointNoEffect ==
    [][\A t \in Observed :
          (task[t].pc = "idle" /\ task'[t] # task[t]
             /\ task'[t].ep # "none" /\ task'[t].ep \notin Catalog)
             => /\ task'[t].pc = "idle"
                /\ task'[t].logins = 0
                /\ task'[t].attempts = 0
                /\ UNCHANGED <<access_token, auth_data, next_refresh, account_number>>]_vars

\* C21 witness: such a dispatch has ended on an authenticator that held a
\* token past its deadline.
C21_Witness ==
    \E t \in Observed :
        /\ task[t].ep \notin Catalog \cup {"none"}
        /\ task[t].pc = "idle"
        /\ task[t].startNull = "held"
        /\ task[t].startDue

\* Statuses a dispatch treats as expiry or outage before it looks at the body.
ExpiryOrOutage == {401, 403, 503}

\* C22: a dispatch that ended on a JSON response, the status being neither
\* expiry nor outage, ended as the vendor status code says: "0" returns, a code
\* of the mapping table raises the mapped error, any other code raises
\* UnknownEndpointError.
C22_OutcomeFromStatusCode ==
    \A t \in Observed :
        (task[t].pc = "idle" /\ task[t].lastBody \in Codes
           /\ task[t].lastStatus \notin ExpiryOrOutage)
            => task[t].outcome =
                  (IF task[t].lastBody = "0" THEN "ok"
                   ELSE IF task[t].lastBody \in DOMAIN API_RESPONSE_STATUS_CODE_MAPPING
                        THEN API_RESPONSE_STATUS_CODE_MAPPING[task[t].lastBody]
                   ELSE "UnknownEndpointError")

\* C23: a dispatch that ended on a response that is not JSON, the status being
\* neither expiry nor outage, ended with UnknownEndpointError.
C23_NonJsonIsUnknownEndpoint ==
    \A t \in Observed :
        (task[t].pc = "idle" /\ task[t].lastBody = "not_json"
           /\ task[t].lastStatus \notin ExpiryOrOutage)
            => task[t].outcome = "UnknownEndpointError"

\* C28: whenever the request for the named endpoint is in flight, the refresh
\* deadline lay ahead at the moment the request was issued.
C28_FreshWhenIssued ==
    \A t \in Observed :
        task[t].pc = "call_http" => task[t].issuedFresh

\* C29: a dispatch for a catalog endpoint that returned a payload ended on a
\* response whose HTTP status was OK.
C29_SuccessOnlyOnOkStatus ==
    \A t \in Observed :
        (task[t].pc = "idle" /\ task[t].ep \in Catalog /\ task[t].outcome = "ok")
            => StatusOk(task[t].lastStatus)

\* C30: the credential POST and the confirmation GET of a PKCE login carry
\* the CSRF token and state nonce of that login's own authorize step, and the
\* verifier of its token POST is the one its challenge was derived from.
C30_OwnPkceMaterial ==
    \A t \in Observed :
        /\ task[t].pc \in {"self_asserted_http", "confirm_http", "token_http"}
              => /\ task[t].sent.saCsrf = CsrfOf(t)
                 /\ task[t].sent.saState = StateOf(t)
        /\ task[t].pc \in {"confirm_http", "token_http"}
              => /\ task[t].sent.cfCsrf = CsrfOf(t)
                 /\ task[t].sent.cfState = StateOf(t)
        /\ task[t].pc = "token_http"
              => task[t].sent.challenge = build_code_challenge(task[t].sent.verifier)

\* The requests the claim lists for a new device, each made once and answered
\* with success, as log entries.
RegistrationSequence ==
    << [ep |-> "login", PartternSetup |-> "absent", attempts |-> 0, logins |-> 1,
        outcome |-> "ok"],
       [ep |-> "register_device", PartternSetup |-> "False", attempts |-> 1,
        logins |-> 0, outcome |-> "ok"],
       [ep |-> "register_device", PartternSetup |-> "True", attempts |-> 1,
        logins |-> 0, outcome |-> "ok"],
       [ep |-> "get_dashboard_details", PartternSetup |-> "absent", attempts |-> 1,
        logins |-> 0, outcome |-> "ok"],
       [ep |-> "get_bills_payments", PartternSetup |-> "absent", attempts |-> 1,
        logins |-> 0, outcome |-> "ok"] >>

C25_LegacyRegistersNewDevice ==
    \A t \in Observed :
        (variant = "LegacyAuth" /\ device.new_device /\ task[t].pc = "call_http")
            => client.registered

\* C26: with a device id supplied, create_via_login_existing_device keeps it,
\* finishes no call but the login and returns after that one request; a
\* LegacyAuth keeps it, is not a new device, and its login makes no request
\* for an endpoint; nothing is registered.
C26_SuppliedDeviceNoRegistration ==
    /\ (variant = "API" /\ client.create = "create_via_login_existing_device")
          => /\ device.device_id = client.dev_arg
             /\ ~client.registered
             /\ client.step = 0
             /\ Len(client.log) <= 1
             /\ \A i \in DOMAIN client.log :
                   /\ client.log[i].ep = "login"
                   /\ client.log[i].attempts = 0
                   /\ client.log[i].logins = 1
             /\ client.made = "running" =>
                   \A t \in Observed : task[t].ep = "none" /\ task[t].attempts = 0
             /\ client.made = "returned" => Len(client.log) = 1
    /\ (variant = "LegacyAuth" /\ client.dev_arg # None)
          => /\ device.device_id = client.dev_arg
             /\ ~device.new_device
             /\ ~client.registered
             /\ \A t \in Observed : task[t].ep = "none" => task[t].attempts = 0

\* C26 witness: a LegacyAuth built with a device id has logged in.
C26_Witness ==
    /\ variant = "LegacyAuth"
    /\ client.dev_arg # None
    /\ access_token # None
    /\ \E t \in Observed : task[t].pc = "idle" /\ task[t].logins = 1 /\ task[t].ep = "none"

\* Requests for get_usage_details the running get_usages has made, the one in
\* flight included.
UsageRequests ==
    client.requests +
       (IF client.stage = "call" THEN task[CHOOSE t \in Observed : TRUE].attempts ELSE 0)

\* C27: one get_usages makes at most two send_request calls and at most two
\* get_usage_details requests and calls refresh_login from its except clause
\* at most once; that refresh follows the first call and precedes the second;
\* it raises ExpiredAccessTokenError only after that refresh has been made.
C27_GetUsagesRetriesOnce ==
    (variant = "API" /\ client.stage # "none")
        => /\ client.tries <= 2
           /\ client.refreshes <= 1
           /\ UsageRequests <= 2
           /\ client.stage = "refresh" => client.tries = 1 /\ client.refreshes = 1
           /\ client.tries = 2 <=> client.retry
           /\ client.retry => client.refreshes = 1
           /\ (client.stage = "raised" /\ client.error = "ExpiredAccessTokenError")
                 => client.refreshes = 1

\* C27 witness: get_usages has raised ExpiredAccessTokenError after its second
\* get_usage_details request was answered 401.
C27_Witness ==
    /\ variant = "API"
    /\ client.stage = "raised"
    /\ client.error = "ExpiredAccessTokenError"
    /\ client.tries = 2
    /\ client.requests = 2

====
